---- MODULE Spec2Model ----
(***************************************************************************)
(* Model of internal/lsp/cache/pkg.go: the package node, its diagnostic    *)
(* table (SetDiagnostics / FindDiagnostic under diagMu) and the            *)
(* cross-package file resolver (pkg.FindFile).                             *)
(***************************************************************************)
EXTENDS Integers, Sequences, FiniteSets, TLC

(***************************************************************************)
(* Bounds of the model.                                                    *)
(***************************************************************************)
\* number of package nodes (*pkg values) of a snapshot
NumNodes == 3
\* number of import paths usable as keys of a node's imports map
NumPaths == 2

Nodes == 1..NumNodes
\* packageID values; ID() returns them as opaque strings, only compared for equality
BuildIDs == 1..NumNodes
\* packagePath values (keys of pkg.imports)
Paths == 1..NumPaths

(***************************************************************************)
(* File handles (source.ParseGoHandle) and their identities.               *)
(***************************************************************************)
\* the uris FindFile is asked for; "b.go" is the identity of the handle "hb" only
URIs == {"a.go"}
Handles == {"hb", "ha", "ha2"}

\* ph.File().Identity().URI
HandleURI(ph) == IF ph = "hb" THEN "b.go" ELSE "a.go"

\* the files lists a node is constructed with
FileLists == {<<>>, <<"hb", "ha", "ha2">>}

(***************************************************************************)
(* State.                                                                  *)
(***************************************************************************)
VARIABLES
    pkgId,      \* pkg.id of every node
    pkgPath,    \* pkg.pkgPath of every node
    files,      \* pkg.files of every node
    errors,     \* pkg.errors of every node
    imports,    \* pkg.imports of every node: a map from some paths to nodes
    types,      \* pkg.types of every node: a pointer, nil or not
    typesInfo,  \* pkg.typesInfo of every node
    typesSizes, \* pkg.typesSizes of every node
    ret,        \* the last call of File, GetSyntax, GetImport or IsIllTyped and its return
    pc,         \* position of the FindFile call: "idle", "loop" or "done"
    uri,        \* FindFile's uri argument
    ignore,     \* what p.snapshot.view.Ignore(uri) answered
    queue,      \* FindFile's local queue
    seen,       \* FindFile's local seen map (the ids mapped to true)
    result,     \* what FindFile returned
    viewResult, \* history: what view.findIgnoredFile returned, when it was called
    popped,     \* history: the nodes popped from the queue, in order
    orders,     \* history: the order the range over a node's imports took first
    diagMu,     \* pkg.diagMu of the node the analyzers run on: TRUE when locked
    diagnostics,\* pkg.diagnostics of that node
    dpc,        \* position of every goroutine in SetDiagnostics / FindDiagnostic
    darg,       \* the arguments of every goroutine's call
    drem,       \* FindDiagnostic: the map keys the range has still to visit
    dres,       \* FindDiagnostic: what the call returns
    writes,     \* history: the SetDiagnostics calls that returned, in order
    lastFind    \* history: the FindDiagnostic call that returned last

graphVars ==
    <<pkgId, pkgPath, files, errors, imports, types, typesInfo, typesSizes>>

readVars == <<ret>>

findVars == <<pc, uri, ignore, queue, seen, result, viewResult, popped, orders>>

diagVars == <<diagMu, diagnostics, dpc, darg, drem, dres, writes, lastFind>>

vars == <<graphVars, readVars, findVars, diagVars>>

\* the receiver p of FindFile; the families of graphs below are closed under
\* renaming of nodes, so the first node stands for any start node
StartNode == CHOOSE n \in Nodes : \A m \in Nodes : n <= m

\* a map[packagePath]*pkg: some paths are keys, each mapped to a node (the
\* loop at line 159 calls dep.ID() on every value, so every value is a node)
ImportMaps == UNION {[D -> Nodes] : D \in SUBSET Paths}

\* assignments of ids to nodes, up to renaming of the ids (they are opaque) and
\* of the nodes other than the start node: nodes that share an id are
\* neighbours, and a node takes the id of the node before it or the next id
IdChoices ==
    {f \in [Nodes -> BuildIDs] :
        /\ f[StartNode] = StartNode
        /\ \A n \in Nodes \ {StartNode} : f[n] \in {f[n - 1], f[n - 1] + 1}}

\* no call of File, GetSyntax, GetImport or IsIllTyped made yet
NoCall == [op |-> "none"]

\* no result yet
NoResult == [err |-> "none"]
\* errors.Errorf("no file for %s", uri)
NotFound == [err |-> "no file"]
\* a faulty variant of Found: the receiver p is returned in place of pkg
FoundAtReceiver(ph, pkg) == [err |-> "nil", ph |-> ph, pkg |-> StartNode]

\* line 156: return ph, pkg, nil
Found(ph, pkg) == [err |-> "nil", ph |-> ph, pkg |-> pkg]

\* what the view's findIgnoredFile may return: it is external to pkg.go
IgnoredResults == {NotFound, Found("ha2", NumNodes)}

(***************************************************************************)
(* Helpers of FindFile.                                                    *)
(***************************************************************************)
\* all orders in which a range over a map with key set S may visit its keys
Perms(S) ==
    {s \in [1..Cardinality(S) -> S] :
        \A i, j \in 1..Cardinality(S) : i # j => s[i] # s[j]}

\* a faulty variant of ScanFiles: the comparison with uri is lost, the first handle is taken
ScanFilesAnyHandle(fs, u) == IF Len(fs) > 0 THEN 1 ELSE 0

\* the index of the first handle of fs whose identity is u, 0 when there is none
ScanFiles(fs, u) ==
    LET hits == {i \in 1..Len(fs) : HandleURI(fs[i]) = u}
    IN  IF hits = {} THEN 0
        ELSE CHOOSE i \in hits : \A j \in hits : i <= j

\* seen[pkg.ID()] = true
MarkSeen(seenIds, pkg) == seenIds \cup {pkgId[pkg]}

\* a faulty variant of ShouldEnqueue: the negation is lost
ShouldEnqueueInverted(seenIds, dep) == pkgId[dep] \in seenIds

\* a faulty variant of ShouldEnqueue: the seen map is keyed by the package path
ShouldEnqueueByPath(seenIds, dep) ==
    \A n \in Nodes : pkgId[n] \in seenIds => pkgPath[n] # pkgPath[dep]

\* !seen[dep.ID()]
ShouldEnqueue(seenIds, dep) == pkgId[dep] \notin seenIds

\* queue = queue[1:]
Dequeue(q) == Tail(q)

\* a faulty variant of EnqueueImports: the loop over the imports stops after one import
EnqueueFirstImportOnly(q, seenIds, pkg, ord) ==
    IF ord # <<>> /\ ShouldEnqueue(seenIds, imports[pkg][ord[1]])
    THEN Append(q, imports[pkg][ord[1]])
    ELSE q

\* a faulty variant of EnqueueImports: the imports are appended in the reverse order
EnqueueImportsReversed(q, seenIds, pkg, ord) ==
    LET deps == [i \in 1..Len(ord) |-> imports[pkg][ord[Len(ord) + 1 - i]]]
        Keep(dep) == ShouldEnqueue(seenIds, dep)
    IN  q \o SelectSeq(deps, Keep)

\* lines 159-163: the loop over pkg.imports, visiting the keys in the order ord
EnqueueImports(q, seenIds, pkg, ord) ==
    LET deps == [i \in 1..Len(ord) |-> imports[pkg][ord[i]]]
        Keep(dep) == ShouldEnqueue(seenIds, dep)
    IN  q \o SelectSeq(deps, Keep)

\* a faulty variant of TakesIgnoredPath: the special case is missing
TakesIgnoredPathNever(ig) == FALSE

\* the resolver takes the ignored-file path
TakesIgnoredPath(ig) == ig

\* the most entries the queue can ever hold at import distance d is NumPaths^d,
\* and no entry lies farther than NumNodes - 1: the sum over the distances
MaxPops == (NumPaths ^ NumNodes - 1) \div (NumPaths - 1)

\* a cap on the iterations of the loop, above what any graph of the model needs
PopCap == MaxPops + 1

(***************************************************************************)
(* The diagnostic table: analyzers, diagnostics, queries.                  *)
(***************************************************************************)
\* goroutines calling SetDiagnostics and FindDiagnostic on the node
NumProcs == 2
\* the SetDiagnostics calls one behaviour makes, at most
MaxWrites == 2

Procs == 1..NumProcs

\* *analysis.Analyzer values: two of them carry the same Name
Analyzers == {"vetA", "vetB", "lintA"}

\* a.Name
AnalyzerName(a) == IF a = "lintA" THEN "lint" ELSE "vet"

\* protocol.Position and protocol.Range
Pos(l, c) == [Line |-> l, Character |-> c]
Rng(sl, sc, el, ec) == [Start |-> Pos(sl, sc), End |-> Pos(el, ec)]

RangeA == Rng(1, 1, 1, 5)
RangeB == Rng(1, 1, 1, 6)

\* source.Diagnostic: the fields FindDiagnostic reads, and the severity
Diag(m, r, sev) == [Message |-> m, Range |-> r, Severity |-> sev]

DiagWarn == Diag("unused var", RangeA, "warning")
DiagErr == Diag("unused var", RangeA, "error")
DiagOther == Diag("shadowed var", RangeA, "warning")
DiagFar == Diag("unused var", RangeB, "warning")

\* the lists SetDiagnostics is called with
DiagLists == {<<DiagOther, DiagWarn, DiagErr>>, <<DiagErr>>, <<DiagFar>>}

\* protocol.Diagnostic: the fields FindDiagnostic reads
Query(src, m, r) == [Source |-> src, Message |-> m, Range |-> r]

Queries ==
    {Query("vet", "unused var", RangeA),
     Query("vet", "unused var", RangeB),
     Query("lint", "unused var", RangeA)}

\* protocol.ComparePosition: -1, 0 or 1 by line, then by character
ComparePosition(a, b) ==
    IF a.Line < b.Line THEN -1
    ELSE IF a.Line > b.Line THEN 1
    ELSE IF a.Character < b.Character THEN -1
    ELSE IF a.Character > b.Character THEN 1
    ELSE 0

\* protocol.CompareRange: by start, then by end
CompareRange(a, b) ==
    IF ComparePosition(a.Start, b.Start) # 0
    THEN ComparePosition(a.Start, b.Start)
    ELSE ComparePosition(a.End, b.End)

\* the nil map, and a map made by make(): reading either finds no key
NilTable == [alloc |-> FALSE, m |-> <<>>]
MakeTable == [alloc |-> TRUE, m |-> <<>>]

NoArg == [op |-> "none"]
SetArg(a, ds) == [op |-> "set", a |-> a, diags |-> ds]
FindArg(q) == [op |-> "find", q |-> q]

\* no FindDiagnostic call has returned yet
NoFind == [has |-> FALSE]

NoDiag == [err |-> "none"]
\* errors.Errorf("no matching diagnostic for %v", pdiag)
NoMatch == [err |-> "no matching diagnostic"]
FoundDiag(d) == [err |-> "nil", d |-> d]

\* a faulty variant of DiagMatches: the ranges are not compared
DiagMatchesNoRange(d, q) == d.Message = q.Message

\* lines 128-133: d passes both tests of the inner loop
DiagMatches(d, q) ==
    /\ ~(d.Message # q.Message)
    /\ ~(CompareRange(d.Range, q.Range) # 0)

\* a faulty variant of FirstMatch: the scan keeps going and the last match is returned
LastMatch(ds, q) ==
    LET hits == {i \in 1..Len(ds) : DiagMatches(ds[i], q)}
    IN  IF hits = {} THEN 0
        ELSE CHOOSE i \in hits : \A j \in hits : i >= j

\* lines 127-135: the index of the first diagnostic of ds the loop returns,
\* 0 when it returns none
FirstMatch(ds, q) ==
    LET hits == {i \in 1..Len(ds) : DiagMatches(ds[i], q)}
    IN  IF hits = {} THEN 0
        ELSE CHOOSE i \in hits : \A j \in hits : i <= j

\* a faulty variant of StoreEntry: the new list is appended to the old one
StoreEntryMerged(m, a, ds) ==
    [x \in DOMAIN m \cup {a} |->
        IF x = a THEN (IF a \in DOMAIN m THEN m[a] \o ds ELSE ds) ELSE m[x]]

\* a faulty variant of StoreEntry: the map is made anew on every call
StoreEntryFresh(m, a, ds) == [x \in {a} |-> ds]

\* line 116: p.diagnostics[a] = diags
StoreEntry(m, a, ds) ==
    [x \in DOMAIN m \cup {a} |-> IF x = a THEN ds ELSE m[x]]

\* a faulty variant of LockIsFree: Lock does not wait
LockIsFreeAlways(mu) == TRUE

\* sync.Mutex.Lock returns only when the mutex is unlocked
LockIsFree(mu) == ~mu

\* a faulty variant of DeferredUnlock: Unlock is called before the successful
\* returns only, the error return of FindDiagnostic keeps the mutex locked
UnlockUnlessError(mu, r) == IF r = NoMatch THEN mu ELSE FALSE

\* lines 112, 121: the deferred Unlock runs when the call returns, whatever
\* it returns
DeferredUnlock(mu, r) == FALSE

\* the node is constructed with no table, an unlocked mutex, no call in progress
DiagStart ==
    /\ diagMu = FALSE
    /\ diagnostics = NilTable
    /\ dpc = [p \in Procs |-> "idle"]
    /\ darg = [p \in Procs |-> NoArg]
    /\ drem = [p \in Procs |-> {}]
    /\ dres = [p \in Procs |-> NoDiag]
    /\ writes = <<>>
    /\ lastFind = NoFind

\* the SetDiagnostics calls that have been made
SetCalls == Len(writes) + Cardinality({p \in Procs : darg[p].op = "set"})

(***************************************************************************)
(* SetDiagnostics.                                                         *)
(***************************************************************************)
\* line 110: a goroutine calls SetDiagnostics(a, ds)
SetCall(p, a, ds) ==
    /\ dpc[p] = "idle"
    /\ SetCalls < MaxWrites
    /\ dpc' = [dpc EXCEPT ![p] = "set_lock"]
    /\ darg' = [darg EXCEPT ![p] = SetArg(a, ds)]
    /\ UNCHANGED <<graphVars, readVars, findVars, diagMu, diagnostics, drem, dres, writes, lastFind>>

\* line 111: p.diagMu.Lock()
SetLock(p) ==
    /\ dpc[p] = "set_lock"
    /\ LockIsFree(diagMu)
    /\ diagMu' = TRUE
    /\ dpc' = [dpc EXCEPT ![p] = "set_alloc"]
    /\ UNCHANGED <<graphVars, readVars, findVars, diagnostics, darg, drem, dres, writes, lastFind>>

\* lines 113-115: the table is made on the first write
SetAlloc(p) ==
    /\ dpc[p] = "set_alloc"
    /\ diagnostics' = IF ~diagnostics.alloc THEN MakeTable ELSE diagnostics
    /\ dpc' = [dpc EXCEPT ![p] = "set_store"]
    /\ UNCHANGED <<graphVars, readVars, findVars, diagMu, darg, drem, dres, writes, lastFind>>

\* line 116: the entry of a is assigned
SetStore(p) ==
    /\ dpc[p] = "set_store"
    /\ diagnostics.alloc
    /\ diagnostics' =
        [diagnostics EXCEPT !.m = StoreEntry(@, darg[p].a, darg[p].diags)]
    /\ dpc' = [dpc EXCEPT ![p] = "set_ret"]
    /\ UNCHANGED <<graphVars, readVars, findVars, diagMu, darg, drem, dres, writes, lastFind>>

\* lines 112, 117: the call returns and the deferred Unlock runs
SetReturn(p) ==
    /\ dpc[p] = "set_ret"
    /\ diagMu' = DeferredUnlock(diagMu, NoDiag)
    /\ writes' = Append(writes, [a |-> darg[p].a, diags |-> darg[p].diags])
    /\ dpc' = [dpc EXCEPT ![p] = "idle"]
    /\ darg' = [darg EXCEPT ![p] = NoArg]
    /\ UNCHANGED <<graphVars, readVars, findVars, diagnostics, drem, dres, lastFind>>

(***************************************************************************)
(* FindDiagnostic.                                                         *)
(***************************************************************************)
\* line 119: a goroutine calls FindDiagnostic(q)
FindCall(p, q) ==
    /\ dpc[p] = "idle"
    /\ dpc' = [dpc EXCEPT ![p] = "find_lock"]
    /\ darg' = [darg EXCEPT ![p] = FindArg(q)]
    /\ UNCHANGED <<graphVars, readVars, findVars, diagMu, diagnostics, drem, dres, writes, lastFind>>

\* lines 120, 123: p.diagMu.Lock(), and the range over the table begins
FindLock(p) ==
    /\ dpc[p] = "find_lock"
    /\ LockIsFree(diagMu)
    /\ diagMu' = TRUE
    /\ drem' = [drem EXCEPT ![p] = DOMAIN diagnostics.m]
    /\ dpc' = [dpc EXCEPT ![p] = "find_loop"]
    /\ UNCHANGED <<graphVars, readVars, findVars, diagnostics, darg, dres, writes, lastFind>>

\* lines 123-136: the range yields one more key, in no particular order
FindVisit(p) ==
    /\ dpc[p] = "find_loop"
    /\ \E a \in drem[p] :
        LET q == darg[p].q
            ds == diagnostics.m[a]
            i == IF AnalyzerName(a) # q.Source THEN 0 ELSE FirstMatch(ds, q)
        IN  IF i # 0
            THEN /\ dres' = [dres EXCEPT ![p] = FoundDiag(ds[i])]
                 /\ dpc' = [dpc EXCEPT ![p] = "find_ret"]
                 /\ drem' = [drem EXCEPT ![p] = {}]
            ELSE /\ drem' = [drem EXCEPT ![p] = @ \ {a}]
                 /\ UNCHANGED <<dpc, dres>>
    /\ UNCHANGED <<graphVars, readVars, findVars, diagMu, diagnostics, darg, writes, lastFind>>

\* line 137: the range is over and nothing matched
FindMiss(p) ==
    /\ dpc[p] = "find_loop"
    /\ drem[p] = {}
    /\ dres' = [dres EXCEPT ![p] = NoMatch]
    /\ dpc' = [dpc EXCEPT ![p] = "find_ret"]
    /\ UNCHANGED <<graphVars, readVars, findVars, diagMu, diagnostics, darg, drem, writes, lastFind>>

\* line 121: the call returns and the deferred Unlock runs
FindUnlock(p) ==
    /\ dpc[p] = "find_ret"
    /\ diagMu' = DeferredUnlock(diagMu, dres[p])
    /\ dpc' = [dpc EXCEPT ![p] = "idle"]
    /\ darg' = [darg EXCEPT ![p] = NoArg]
    /\ dres' = [dres EXCEPT ![p] = NoDiag]
    /\ UNCHANGED <<graphVars, readVars, findVars, diagnostics, drem, writes>>

FindReturn(p) == FindUnlock(p) /\ UNCHANGED lastFind

\* the same return, the history of the last call kept
FindReturnNoted(p) ==
    /\ FindUnlock(p)
    /\ lastFind' =
        [has |-> TRUE, q |-> darg[p].q, table |-> diagnostics, res |-> dres[p]]

(***************************************************************************)
(* Initial states: the nodes as constructed, no call made.                 *)
(***************************************************************************)
\* no FindFile call made
FindStart ==
    /\ pc = "idle"
    /\ uri = "none"
    /\ ignore = FALSE
    /\ queue = <<>>
    /\ seen = {}
    /\ result = NoResult
    /\ viewResult = NoResult
    /\ popped = <<>>
    /\ orders = [n \in Nodes |-> [set |-> FALSE]]

\* the fields FindFile, SetDiagnostics and FindDiagnostic never read: every
\* node type-checked, with no load error and a path of its own; and no call
\* of File, GetSyntax, GetImport or IsIllTyped made
NodeDefaults ==
    /\ pkgPath = [n \in Nodes |-> ((n - 1) % NumPaths) + 1]
    /\ errors = [n \in Nodes |-> <<>>]
    /\ types = [n \in Nodes |-> "obj"]
    /\ typesInfo = [n \in Nodes |-> "obj"]
    /\ typesSizes = [n \in Nodes |-> "obj"]
    /\ ret = NoCall

Init ==
    /\ pkgId \in IdChoices
    /\ files \in [Nodes -> FileLists]
    /\ imports \in [Nodes -> ImportMaps]
    /\ NodeDefaults
    /\ FindStart
    /\ DiagStart

(***************************************************************************)
(* FindFile.                                                               *)
(***************************************************************************)
\* lines 141-144: the view ignores uri, the view's resolver answers
FindFileIgnored(u, ig) ==
    /\ pc = "idle"
    /\ TakesIgnoredPath(ig)
    /\ \E r \in IgnoredResults :
        /\ viewResult' = r
        /\ result' = r
    /\ uri' = u
    /\ ignore' = ig
    /\ pc' = "done"
    /\ UNCHANGED <<graphVars, readVars, diagVars, queue, seen, popped, orders>>

\* lines 142, 146-147: uri is not ignored, the search starts at p
FindFileBegin(u, ig) ==
    /\ pc = "idle"
    /\ ~TakesIgnoredPath(ig)
    /\ uri' = u
    /\ ignore' = ig
    /\ queue' = <<StartNode>>
    /\ seen' = {}
    /\ pc' = "loop"
    /\ UNCHANGED <<graphVars, readVars, diagVars, result, viewResult, popped, orders>>

\* lines 150-163: the body of the loop, the range of line 159 visiting the
\* keys in the order ord
FindFileBody(ord) ==
    LET pkg == Head(queue)
        rest == Dequeue(queue)
        seen1 == MarkSeen(seen, pkg)
        hit == ScanFiles(files[pkg], uri)
    IN  /\ popped' = Append(popped, pkg)
        /\ seen' = seen1
        /\ IF hit # 0
           THEN /\ result' = Found(files[pkg][hit], pkg)
                /\ queue' = rest
                /\ pc' = "done"
           ELSE /\ queue' = EnqueueImports(rest, seen1, pkg, ord)
                /\ result' = result
                /\ pc' = "loop"
        /\ UNCHANGED <<graphVars, readVars, diagVars, uri, ignore, viewResult>>

\* lines 149-164: one iteration of the loop
FindFileStep ==
    /\ pc = "loop"
    /\ Len(queue) > 0
    /\ Len(popped) < PopCap
    /\ \E ord \in Perms(DOMAIN imports[Head(queue)]) : FindFileBody(ord)
    /\ UNCHANGED orders

\* the same iteration, the history of the order of a node's first range kept
FindFileStepNoted ==
    /\ pc = "loop"
    /\ Len(queue) > 0
    /\ Len(popped) < PopCap
    /\ \E ord \in Perms(DOMAIN imports[Head(queue)]) :
        /\ FindFileBody(ord)
        /\ orders' =
            IF ScanFiles(files[Head(queue)], uri) = 0 /\ ~orders[Head(queue)].set
            THEN [orders EXCEPT ![Head(queue)] = [set |-> TRUE, ord |-> ord]]
            ELSE orders

\* lines 149, 165: the queue is empty
FindFileExit ==
    /\ pc = "loop"
    /\ Len(queue) = 0
    /\ result' = NotFound
    /\ pc' = "done"
    /\ UNCHANGED <<graphVars, readVars, diagVars, uri, ignore, queue, seen, viewResult, popped, orders>>

Next ==
    \/ \E u \in URIs, ig \in BOOLEAN : FindFileIgnored(u, ig)
    \/ \E u \in URIs, ig \in BOOLEAN : FindFileBegin(u, ig)
    \/ FindFileStep
    \/ FindFileExit

Spec == Init /\ [][Next]_vars

\* the node the analyzers run on: its files and imports play no part
DiagInit ==
    /\ pkgId = [n \in Nodes |-> n]
    /\ files = [n \in Nodes |-> <<>>]
    /\ imports = [n \in Nodes |-> <<>>]
    /\ NodeDefaults
    /\ FindStart
    /\ DiagStart

DiagNext ==
    \/ \E p \in Procs, a \in Analyzers, ds \in DiagLists : SetCall(p, a, ds)
    \/ \E p \in Procs : SetLock(p)
    \/ \E p \in Procs : SetAlloc(p)
    \/ \E p \in Procs : SetStore(p)
    \/ \E p \in Procs : SetReturn(p)
    \/ \E p \in Procs, q \in Queries : FindCall(p, q)
    \/ \E p \in Procs : FindLock(p)
    \/ \E p \in Procs : FindVisit(p)
    \/ \E p \in Procs : FindMiss(p)
    \/ \E p \in Procs : FindReturn(p)

DiagSpec == DiagInit /\ [][DiagNext]_vars

\* the calls the release of the mutex is studied with: two analyzers and two
\* lists, a query one list matches and a query the other matches
LockAnalyzers == {"vetA", "lintA"}
LockLists == {<<DiagErr>>, <<DiagFar>>}
LockQueries == {Query("vet", "unused var", RangeA), Query("vet", "unused var", RangeB)}

LockNext ==
    \/ \E p \in Procs, a \in LockAnalyzers, ds \in LockLists : SetCall(p, a, ds)
    \/ \E p \in Procs : SetLock(p)
    \/ \E p \in Procs : SetAlloc(p)
    \/ \E p \in Procs : SetStore(p)
    \/ \E p \in Procs : SetReturn(p)
    \/ \E p \in Procs, q \in LockQueries : FindCall(p, q)
    \/ \E p \in Procs : FindLock(p)
    \/ \E p \in Procs : FindVisit(p)
    \/ \E p \in Procs : FindMiss(p)
    \/ \E p \in Procs : FindReturn(p)

\* a goroutine that is in a call keeps running; sync.Mutex hands the mutex to
\* a goroutine that keeps waiting in Lock (its starvation mode), so a
\* goroutine that finds the mutex free again and again gets it
FairLockSpec ==
    /\ DiagInit /\ [][LockNext]_vars
    /\ \A p \in Procs :
        /\ WF_vars(SetAlloc(p) \/ SetStore(p) \/ SetReturn(p))
        /\ WF_vars(FindVisit(p) \/ FindMiss(p) \/ FindReturn(p))
        /\ SF_vars(SetLock(p) \/ FindLock(p))

\* one goroutine making its calls one after the other
Caller == CHOOSE p \in Procs : \A r \in Procs : p <= r

\* the calls of one goroutine, with the history of its last FindDiagnostic kept
NotedNext ==
    \/ \E a \in Analyzers, ds \in DiagLists : SetCall(Caller, a, ds)
    \/ SetLock(Caller)
    \/ SetAlloc(Caller)
    \/ SetStore(Caller)
    \/ SetReturn(Caller)
    \/ \E q \in Queries : FindCall(Caller, q)
    \/ FindLock(Caller)
    \/ FindVisit(Caller)
    \/ FindMiss(Caller)
    \/ FindReturnNoted(Caller)

NotedSpec == DiagInit /\ [][NotedNext]_vars

\* the paths of the nodes, up to renaming of the paths: several nodes may have
\* one path
PathChoices == {f \in [Nodes -> Paths] : f[StartNode] = 1}

\* the graphs whose nodes have ids of their own, with any paths
VariantInit ==
    /\ pkgId = [n \in Nodes |-> n]
    /\ pkgPath \in PathChoices
    /\ files \in [Nodes -> FileLists]
    /\ imports \in [Nodes -> ImportMaps]
    /\ errors = [n \in Nodes |-> <<>>]
    /\ types = [n \in Nodes |-> "obj"]
    /\ typesInfo = [n \in Nodes |-> "obj"]
    /\ typesSizes = [n \in Nodes |-> "obj"]
    /\ ret = NoCall
    /\ FindStart
    /\ DiagStart

\* FindFile, with the history of the range orders kept
VariantNext ==
    \/ \E u \in URIs, ig \in BOOLEAN : FindFileIgnored(u, ig)
    \/ \E u \in URIs, ig \in BOOLEAN : FindFileBegin(u, ig)
    \/ FindFileStepNoted
    \/ FindFileExit

VariantSpec == VariantInit /\ [][VariantNext]_vars

\* FindFile runs on its caller's goroutine, which keeps running until it returns
FairSpec == Spec /\ WF_vars(Next)

(***************************************************************************)
(* The read contract of a node: File, GetSyntax, GetImport, IsIllTyped.    *)
(***************************************************************************)
\* the nil *pkg
NilPkg == 0

\* nil and non-nil values of the fields types, typesInfo, typesSizes
PtrValues == {"nil", "obj"}

\* the uris File is asked for: no handle of the model has identity "c.go"
ReadURIs == {"a.go", "b.go", "c.go"}

\* the files lists of the node the reads are studied on: the lists of distinct
\* handles; "ha" and "ha2" are two handles with one identity
ReadFileLists ==
    {fs \in UNION {[1..k -> Handles] : k \in 0..Cardinality(Handles)} :
        \A i, j \in 1..Len(fs) : i # j => fs[i] # fs[j]}

\* the imports maps of that node: a key may be mapped to the nil *pkg
NilImportMaps == UNION {[D -> Nodes \cup {NilPkg}] : D \in SUBSET Paths}

\* the pkgPath strings GetImport is asked for: one of them is no key of any map
AskedPaths == 1..(NumPaths + 1)

\* a faulty variant of FileResult: the scan keeps going and the last handle is returned
FileResultLast(fs, u) ==
    LET hits == {i \in 1..Len(fs) : HandleURI(fs[i]) = u}
    IN  IF hits = {} THEN [err |-> "no ParseGoHandle"]
        ELSE [err |-> "nil", ph |-> fs[CHOOSE i \in hits : \A j \in hits : i >= j]]

\* lines 63-68: the scan of p.Files() and the two returns
FileResult(fs, u) ==
    IF ScanFiles(fs, u) # 0
    THEN [err |-> "nil", ph |-> fs[ScanFiles(fs, u)]]
    ELSE [err |-> "no ParseGoHandle"]

\* line 62: p.File(uri)
File(n, u) ==
    /\ ret' = [op |-> "File", pkg |-> n, uri |-> u, res |-> FileResult(files[n], u)]
    /\ UNCHANGED <<graphVars, findVars, diagVars>>

\* the *ast.File ph.Cached returns when it succeeds
AstOf(ph) == [ast |-> ph]

\* a faulty variant of AppendParsed: err is not tested, a failed retrieval appends its nil file
AppendParsedAlways(syntax, ph, ok) ==
    Append(syntax, IF ph \in ok THEN AstOf(ph) ELSE [ast |-> "nil"])

\* lines 74-77: ph.Cached succeeds for the handles of ok; the file is appended
\* when err == nil
AppendParsed(syntax, ph, ok) ==
    IF ph \in ok THEN Append(syntax, AstOf(ph)) ELSE syntax

\* lines 72-79: the loop over p.files, from the nil slice
RECURSIVE SyntaxLoop(_, _, _)
SyntaxLoop(syntax, fs, ok) ==
    IF fs = <<>> THEN syntax
    ELSE SyntaxLoop(AppendParsed(syntax, Head(fs), ok), Tail(fs), ok)

\* line 71: p.GetSyntax(ctx), the retrievals succeeding for the handles of ok
GetSyntax(n, ok) ==
    /\ ret' = [op |-> "GetSyntax", pkg |-> n, ok |-> ok,
               res |-> SyntaxLoop(<<>>, files[n], ok)]
    /\ UNCHANGED <<graphVars, findVars, diagVars>>

\* a faulty variant of LookupImport: a missing key is looked up in the imported nodes
LookupImportTransitive(m, path) ==
    IF path \in DOMAIN m THEN m[path]
    ELSE LET far == {d \in {m[k] : k \in DOMAIN m} \ {NilPkg} :
                        path \in DOMAIN imports[d]}
         IN  IF far = {} THEN NilPkg
             ELSE imports[CHOOSE d \in far : TRUE][path]

\* line 103: p.imports[packagePath(pkgPath)]; a map read gives the nil *pkg
\* for a missing key
LookupImport(m, path) == IF path \in DOMAIN m THEN m[path] ELSE NilPkg

\* a faulty variant of ImportResult: the nil test is missing
ImportResultUnchecked(imp) == [err |-> "nil", pkg |-> imp]

\* lines 103-107: the two returns
ImportResult(imp) ==
    IF imp # NilPkg THEN [err |-> "nil", pkg |-> imp]
    ELSE [err |-> "no imported package"]

\* a faulty variant of MapAfterLookup: reading a missing key adds it, mapped to nil
MapAfterLookupInserting(m, path) ==
    [k \in DOMAIN m \cup {path} |-> IF k \in DOMAIN m THEN m[k] ELSE NilPkg]

\* line 103: reading a Go map leaves the map as it is
MapAfterLookup(m, path) == m

\* line 102: p.GetImport(ctx, pkgPath)
GetImport(n, path) ==
    /\ ret' = [op |-> "GetImport", pkg |-> n, path |-> path,
               res |-> ImportResult(LookupImport(imports[n], path))]
    /\ imports' = [imports EXCEPT ![n] = MapAfterLookup(@, path)]
    /\ UNCHANGED <<pkgId, pkgPath, files, errors, types, typesInfo, typesSizes>>
    /\ UNCHANGED <<findVars, diagVars>>

\* a faulty variant of IllTyped: the three tests are joined by && in place of ||
IllTypedWhenAllNil(t, ti, ts) == t = "nil" /\ ti = "nil" /\ ts = "nil"

\* line 99
IllTyped(t, ti, ts) == t = "nil" \/ ti = "nil" \/ ts = "nil"

\* line 98: p.IsIllTyped()
IsIllTyped(n) ==
    /\ ret' = [op |-> "IsIllTyped", pkg |-> n,
               res |-> IllTyped(types[n], typesInfo[n], typesSizes[n])]
    /\ UNCHANGED <<graphVars, findVars, diagVars>>

\* the nodes other than the first: two files, every path imported, type-checked
DefaultFiles == <<"ha", "hb">>
DefaultImports(n) == [k \in Paths |-> n]

\* the first node has any files and any imports, and is type-checked; the
\* other nodes are default nodes
FirstNodeGraph ==
    /\ \E fs \in ReadFileLists :
        files = [n \in Nodes |-> IF n = StartNode THEN fs ELSE DefaultFiles]
    /\ \E im \in NilImportMaps :
        imports = [n \in Nodes |-> IF n = StartNode THEN im ELSE DefaultImports(n)]
    /\ types = [n \in Nodes |-> "obj"]
    /\ typesInfo = [n \in Nodes |-> "obj"]
    /\ typesSizes = [n \in Nodes |-> "obj"]

\* the first node has any of its three type results nil, and is a default
\* node otherwise
FirstNodeTypes ==
    /\ files = [n \in Nodes |-> DefaultFiles]
    /\ imports = [n \in Nodes |-> DefaultImports(n)]
    /\ \E t \in PtrValues :
        types = [n \in Nodes |-> IF n = StartNode THEN t ELSE "obj"]
    /\ \E t \in PtrValues :
        typesInfo = [n \in Nodes |-> IF n = StartNode THEN t ELSE "obj"]
    /\ \E t \in PtrValues :
        typesSizes = [n \in Nodes |-> IF n = StartNode THEN t ELSE "obj"]

\* the nodes as constructed: the first node is any node the bounded sets
\* allow, in its graph fields or in its type results
ReadInit ==
    /\ pkgId = [n \in Nodes |-> n]
    /\ pkgPath = [n \in Nodes |-> ((n - 1) % NumPaths) + 1]
    /\ errors = [n \in Nodes |-> <<>>]
    /\ FirstNodeGraph \/ FirstNodeTypes
    /\ ret = NoCall
    /\ FindStart
    /\ DiagStart

ReadNext ==
    \/ \E n \in Nodes, u \in ReadURIs : File(n, u)
    \/ \E n \in Nodes, ok \in SUBSET Handles : GetSyntax(n, ok)
    \/ \E n \in Nodes, path \in AskedPaths : GetImport(n, path)
    \/ \E n \in Nodes : IsIllTyped(n)

ReadSpec == ReadInit /\ [][ReadNext]_vars

\* a chain of imports from the first node to the last, which has any files
\* list; no call made
ChainInit ==
    /\ pkgId = [n \in Nodes |-> n]
    /\ imports = [n \in Nodes |-> IF n < NumNodes THEN [k \in {1} |-> n + 1] ELSE <<>>]
    /\ \E fs \in FileLists :
        files = [n \in Nodes |-> IF n = NumNodes THEN fs ELSE <<>>]
    /\ NodeDefaults
    /\ FindStart
    /\ DiagStart

\* every operation of the first node, which imports the others: the reads,
\* FindFile, and the SetDiagnostics and FindDiagnostic calls of one goroutine
AllNext ==
    \/ \E u \in ReadURIs : File(StartNode, u)
    \/ \E ok \in SUBSET Handles : GetSyntax(StartNode, ok)
    \/ \E path \in AskedPaths : GetImport(StartNode, path)
    \/ IsIllTyped(StartNode)
    \/ \E u \in URIs, ig \in BOOLEAN : FindFileIgnored(u, ig)
    \/ \E u \in URIs, ig \in BOOLEAN : FindFileBegin(u, ig)
    \/ FindFileStep
    \/ FindFileExit
    \/ \E a \in LockAnalyzers, ds \in LockLists : SetCall(Caller, a, ds)
    \/ SetLock(Caller)
    \/ SetAlloc(Caller)
    \/ SetStore(Caller)
    \/ SetReturn(Caller)
    \/ \E q \in LockQueries : FindCall(Caller, q)
    \/ FindLock(Caller)
    \/ FindVisit(Caller)
    \/ FindMiss(Caller)
    \/ FindReturn(Caller)

AllSpec == ChainInit /\ [][AllNext]_vars

(***************************************************************************)
(* Graph notions the claims are stated with.                               *)
(***************************************************************************)
\* the nodes n imports directly
Deps(n) == {imports[n][k] : k \in DOMAIN imports[n]}

RECURSIVE ReachFrom(_)
ReachFrom(S) ==
    LET T == S \cup UNION {Deps(n) : n \in S}
    IN  IF T = S THEN S ELSE ReachFrom(T)

\* the start node and its transitive imports
Reachable == ReachFrom({StartNode})

HasFile(n, u) == \E i \in 1..Len(files[n]) : HandleURI(files[n][i]) = u

DistinctIds == \A n, m \in Nodes : n # m => pkgId[n] # pkgId[m]

\* FindFile has returned from the graph search
Searched == pc = "done" /\ ~ignore

Last(s) == s[Len(s)]

(***************************************************************************)
(* Claims about the resolver.                                              *)
(***************************************************************************)
\* C1 (as stated): during one search no two pops take nodes with the same
\* BuildID, so the pops number at most the distinct reachable BuildIDs.
C1_EachBuildIDPoppedOnce ==
    /\ \A i, j \in 1..Len(popped) :
            i # j => pkgId[popped[i]] # pkgId[popped[j]]
    /\ Len(popped) <= Cardinality({pkgId[n] : n \in Reachable})

\* C2: every search that has started returns: with a handle and its node, or
\* with the not-found error.
C2_SearchTerminates ==
    (pc = "loop") ~> (Searched /\ result.err \in {"nil", "no file"})

\* C2 witness: a search over an import cycle between the start node and
\* another node, one of them importing itself, has returned not-found.
C2_Witness ==
    /\ Searched
    /\ result = NotFound
    /\ \E n \in Nodes \ {StartNode} :
            n \in Deps(StartNode) /\ StartNode \in Deps(n) /\ n \in Deps(n)
    /\ Len(popped) >= 2

\* C3: with distinct ids on distinct nodes, the search returns not-found
\* exactly when no reachable node has a file with identity uri.
C3_NotFoundIffUnreachable ==
    (Searched /\ DistinctIds) =>
        ((result = NotFound) <=> (\A n \in Reachable : ~HasFile(n, uri)))

\* C3 witness: A imports only B, B imports only C, the file is in C alone,
\* and the search from A returned it with C.
C3_Witness ==
    /\ Searched /\ DistinctIds
    /\ \E b, c \in Nodes :
        /\ Cardinality({StartNode, b, c}) = Cardinality(Nodes)
        /\ Deps(StartNode) = {b} /\ Deps(b) = {c}
        /\ \A n \in Nodes : HasFile(n, uri) <=> n = c
        /\ result.err = "nil" /\ result.pkg = c

\* C4: a successful search returns a handle with identity uri out of the
\* returned node's files, the node is reachable from the start node, and it
\* is the last node popped: no queue entry behind it was processed.
C4_SuccessIsSound ==
    (Searched /\ result.err = "nil") =>
        /\ HandleURI(result.ph) = uri
        /\ \E i \in 1..Len(files[result.pkg]) : files[result.pkg][i] = result.ph
        /\ result.pkg \in Reachable
        /\ Last(popped) = result.pkg
        /\ \A i \in 1..(Len(popped) - 1) : ~HasFile(popped[i], uri)

\* C4 witness: the file was found in an import while entries were still queued.
C4_Witness ==
    /\ Searched /\ result.err = "nil"
    /\ result.pkg # StartNode
    /\ queue # <<>>

\* C5: for an ignored uri the result is the one the view's resolver gave, and
\* nothing was queued, popped or marked seen.
C5_IgnoredIsDelegated ==
    ignore =>
        /\ pc = "done"
        /\ result = viewResult
        /\ queue = <<>> /\ seen = {} /\ popped = <<>>

\* C5 witness: the start node has the file, the uri is ignored, and the
\* view's not-found came back.
C5_Witness ==
    /\ ignore /\ pc = "done"
    /\ HasFile(StartNode, uri)
    /\ result = NotFound

(***************************************************************************)
(* Notions the claims about the diagnostic table are stated with.          *)
(***************************************************************************)
\* the goroutine is between Lock and Unlock of SetDiagnostics / FindDiagnostic
InSet(p) == dpc[p] \in {"set_alloc", "set_store", "set_ret"}
InFind(p) == dpc[p] \in {"find_loop", "find_ret"}

\* the entry of analyzer b in table t: absent, or present with a list
Entry(t, b) ==
    IF b \in DOMAIN t.m THEN [present |-> TRUE, list |-> t.m[b]]
    ELSE [present |-> FALSE]

\* the analyzers some returned SetDiagnostics call wrote
Written == {writes[i].a : i \in 1..Len(writes)}

\* the list of the last returned SetDiagnostics call on a
LastWritten(a) ==
    LET is == {i \in 1..Len(writes) : writes[i].a = a}
    IN  writes[CHOOSE i \in is : \A j \in is : i >= j].diags

\* the table a serial run of the returned SetDiagnostics calls leaves
SerialTable == [a \in Written |-> LastWritten(a)]

\* d is what q asks for: same message, identical range
Same(d, q) == d.Message = q.Message /\ d.Range = q.Range

\* some entry of m under an analyzer named q.Source holds what q asks for
HasMatch(m, q) ==
    \E a \in DOMAIN m : \E i \in 1..Len(m[a]) :
        AnalyzerName(a) = q.Source /\ Same(m[a][i], q)

\* lines 123-137 run alone on table m, the range visiting the keys in order ord
RECURSIVE FindInOrder(_, _, _)
FindInOrder(m, q, ord) ==
    IF ord = <<>> THEN NoMatch
    ELSE LET a == Head(ord)
             i == IF AnalyzerName(a) # q.Source THEN 0 ELSE FirstMatch(m[a], q)
         IN  IF i # 0 THEN FoundDiag(m[a][i])
             ELSE FindInOrder(m, q, Tail(ord))

\* what FindDiagnostic(q) can return when it runs alone on table m
AloneOutcomes(m, q) == {FindInOrder(m, q, ord) : ord \in Perms(DOMAIN m)}

(***************************************************************************)
(* Claims about the diagnostic table.                                      *)
(***************************************************************************)
\* C6: when SetDiagnostics(a, D) is about to return, the entry of a is exactly
\* D; and FindDiagnostic answers from the lists written last: what it finds is
\* in the last list of an analyzer named as the query asks, and it finds
\* nothing only when no last list holds a match, whatever older lists held.
C6_Overwrite ==
    \A p \in Procs :
        /\ dpc[p] = "set_ret" =>
                Entry(diagnostics, darg[p].a) =
                    [present |-> TRUE, list |-> darg[p].diags]
        /\ (dpc[p] = "find_ret" /\ dres[p].err = "nil") =>
                \E a \in Written : \E i \in 1..Len(LastWritten(a)) :
                    /\ AnalyzerName(a) = darg[p].q.Source
                    /\ LastWritten(a)[i] = dres[p].d
                    /\ Same(dres[p].d, darg[p].q)
        /\ (dpc[p] = "find_ret" /\ dres[p] = NoMatch) =>
                \A a \in Written : \A i \in 1..Len(LastWritten(a)) :
                    AnalyzerName(a) = darg[p].q.Source
                        => ~Same(LastWritten(a)[i], darg[p].q)

\* C6 witness: two calls wrote the same analyzer, the first list held a match
\* of the query and the second holds none, and the query found nothing.
C6_Witness ==
    \E p \in Procs :
        /\ dpc[p] = "find_ret" /\ dres[p] = NoMatch
        /\ Len(writes) = MaxWrites
        /\ \A i \in 1..Len(writes) : writes[i].a = writes[1].a
        /\ AnalyzerName(writes[1].a) = darg[p].q.Source
        /\ \E i \in 1..Len(writes[1].diags) : Same(writes[1].diags[i], darg[p].q)
        /\ \A i \in 1..Len(LastWritten(writes[1].a)) :
                ~Same(LastWritten(writes[1].a)[i], darg[p].q)

\* C7: FindDiagnostic(q) is about to return a diagnostic exactly when some
\* entry of the table, under an analyzer named q.Source, has q's message and
\* q's range; the diagnostic returned is such an entry; otherwise the call
\* returns the not-found error. A table never made counts as empty.
C7_FindIffMatch ==
    \A p \in Procs :
        dpc[p] = "find_ret" =>
            /\ (dres[p].err = "nil") <=> HasMatch(diagnostics.m, darg[p].q)
            /\ dres[p].err = "nil" =>
                    \E a \in DOMAIN diagnostics.m :
                        \E i \in 1..Len(diagnostics.m[a]) :
                            /\ diagnostics.m[a][i] = dres[p].d
                            /\ AnalyzerName(a) = darg[p].q.Source
                            /\ Same(dres[p].d, darg[p].q)
            /\ dres[p].err # "nil" => dres[p] = NoMatch

\* C7 witness: an entry under the right name has the query's message and
\* another range, and the query found nothing.
C7_Witness ==
    \E p \in Procs :
        /\ dpc[p] = "find_ret" /\ dres[p] = NoMatch
        /\ \E a \in DOMAIN diagnostics.m : \E i \in 1..Len(diagnostics.m[a]) :
            /\ AnalyzerName(a) = darg[p].q.Source
            /\ diagnostics.m[a][i].Message = darg[p].q.Message
            /\ diagnostics.m[a][i].Range # darg[p].q.Range

\* C8: at most one goroutine is between Lock and Unlock; while a
\* FindDiagnostic is there the table is the one a serial run of the returned
\* SetDiagnostics calls leaves, and what the call returns is what it can
\* return when run alone on that table.
C8_Serialized ==
    /\ Cardinality({p \in Procs : InSet(p) \/ InFind(p)}) <= 1
    /\ \A p \in Procs :
        /\ InFind(p) => diagnostics.m = SerialTable
        /\ dpc[p] = "find_ret" => dres[p] \in AloneOutcomes(SerialTable, darg[p].q)

\* C8 witness: a FindDiagnostic is about to return a diagnostic that a returned
\* SetDiagnostics wrote, while another goroutine waits in SetDiagnostics for
\* the lock.
C8_Witness ==
    \E p, w \in Procs :
        /\ dpc[p] = "find_ret" /\ dres[p].err = "nil"
        /\ dpc[w] = "set_lock"
        /\ Len(writes) >= 1

\* C9: no step taken while a goroutine is between Lock and Unlock of
\* SetDiagnostics(a, D) changes the entry of an analyzer other than a.
C9_OtherEntriesKept ==
    [][\A p \in Procs : \A b \in Analyzers :
            (InSet(p) /\ b # darg[p].a)
                => Entry(diagnostics', b) = Entry(diagnostics, b)]_vars

\* C9 witness: SetDiagnostics(a, D) is about to return and an analyzer other
\* than a has an entry.
C9_Witness ==
    \E p \in Procs : \E b \in Analyzers :
        /\ dpc[p] = "set_ret"
        /\ b # darg[p].a
        /\ Entry(diagnostics, b).present
        /\ Entry(diagnostics, darg[p].a).present

\* the analyzers named q.Source whose entry in m holds what q asks for
Holders(m, q) ==
    {a \in DOMAIN m :
        /\ AnalyzerName(a) = q.Source
        /\ \E i \in 1..Len(m[a]) : Same(m[a][i], q)}

\* the call about to return has the query and the table of the call before it
Repeats(p) ==
    /\ dpc[p] = "find_ret"
    /\ lastFind.has
    /\ lastFind.q = darg[p].q
    /\ lastFind.table = diagnostics

\* C10 (as stated): a call with the query and the table state of the call
\* before it returns what that call returned.
C10_SameTableSameResult ==
    \A p \in Procs : Repeats(p) => dres[p] = lastFind.res

\* C10 (amended): a call with the query and the table state of the call before
\* it returns what that call returned when at most one analyzer named as the
\* query asks holds a match; the diagnostic is then the first match of that
\* analyzer's list.
C10_SameResultIfOneHolder ==
    \A p \in Procs :
        (dpc[p] = "find_ret"
            /\ Cardinality(Holders(diagnostics.m, darg[p].q)) <= 1) =>
            /\ Repeats(p) => dres[p] = lastFind.res
            /\ \A a \in Holders(diagnostics.m, darg[p].q) :
                \E i \in 1..Len(diagnostics.m[a]) :
                    /\ dres[p] = FoundDiag(diagnostics.m[a][i])
                    /\ \A j \in 1..(i - 1) : ~Same(diagnostics.m[a][j], darg[p].q)

\* C10 witness: the same query on the same table a second time, one analyzer
\* holding two matches, and the first of them returned.
C10_Witness ==
    \E p \in Procs :
        /\ Repeats(p)
        /\ dres[p].err = "nil"
        /\ \E a \in Analyzers :
            /\ Holders(diagnostics.m, darg[p].q) = {a}
            /\ Cardinality({i \in 1..Len(diagnostics.m[a]) :
                                Same(diagnostics.m[a][i], darg[p].q)}) >= 2

(***************************************************************************)
(* Claims about the read contract.                                         *)
(***************************************************************************)
\* the indices of the handles of fs with identity u
Carriers(fs, u) == {i \in 1..Len(fs) : HandleURI(fs[i]) = u}

\* C11 (as stated): for every handle f of the node's files, File asked for
\* f's identity returns f itself.
C11_FileReturnsEachHandle ==
    ret.op = "File" =>
        \A i \in Carriers(files[ret.pkg], ret.uri) :
            ret.res = [err |-> "nil", ph |-> files[ret.pkg][i]]

\* C11 (amended): File asked for the identity of a handle f of the node's
\* files returns the first handle of the list with that identity, which is f
\* itself when no handle before f has f's identity; it returns the error when
\* no handle of the node's own files has the identity, whatever the files of
\* the imported nodes are.
C11_FileReturnsFirstHandle ==
    ret.op = "File" =>
        LET fs == files[ret.pkg]
            cs == Carriers(fs, ret.uri)
        IN  /\ \A i \in cs :
                    (\A j \in cs : i <= j)
                        => ret.res = [err |-> "nil", ph |-> fs[i]]
            /\ cs = {} => ret.res = [err |-> "no ParseGoHandle"]

\* C11 witness: the files hold two handles with the identity asked for, and
\* File returned the one that comes first.
C11_Witness ==
    /\ ret.op = "File"
    /\ Cardinality(Carriers(files[ret.pkg], ret.uri)) >= 2
    /\ ret.res.err = "nil"
    /\ \E i, j \in Carriers(files[ret.pkg], ret.uri) :
            i < j /\ ret.res.ph = files[ret.pkg][i]
                  /\ ret.res.ph # files[ret.pkg][j]

\* C12: GetImport asked for a path that is no key of the node's imports map
\* returns the error, also when an imported node has the path as a key of its
\* own map; asked for a key mapped to a node, it returns that node.
C12_ImportIsOneHop ==
    ret.op = "GetImport" =>
        LET m == imports[ret.pkg]
        IN  /\ ret.path \notin DOMAIN m
                => ret.res = [err |-> "no imported package"]
            /\ (ret.path \in DOMAIN m /\ m[ret.path] \in Nodes)
                => ret.res = [err |-> "nil", pkg |-> m[ret.path]]

\* C12 witness: the path asked for is no key of the node's map but is a key of
\* the map of a node it imports, and GetImport returned the error.
C12_Witness ==
    /\ ret.op = "GetImport"
    /\ ret.path \notin DOMAIN imports[ret.pkg]
    /\ \E k \in DOMAIN imports[ret.pkg] :
        /\ imports[ret.pkg][k] \in Nodes \ {ret.pkg}
        /\ ret.path \in DOMAIN imports[imports[ret.pkg][k]]
    /\ ret.res = [err |-> "no imported package"]

\* the three type results of node n that are nil
NilResults(n) ==
    {f \in {"types", "typesInfo", "typesSizes"} :
        (f = "types" /\ types[n] = "nil")
        \/ (f = "typesInfo" /\ typesInfo[n] = "nil")
        \/ (f = "typesSizes" /\ typesSizes[n] = "nil")}

\* C14: IsIllTyped returns true exactly when at least one of the three type
\* results of the node is nil, and false exactly when all three are present.
C14_IllTypedIffAnyNil ==
    ret.op = "IsIllTyped" =>
        /\ ret.res = TRUE <=> Cardinality(NilResults(ret.pkg)) >= 1
        /\ ret.res = FALSE <=> NilResults(ret.pkg) = {}

\* C14 witness: exactly one of the three results is nil and IsIllTyped
\* returned true.
C14_Witness ==
    /\ ret.op = "IsIllTyped"
    /\ Cardinality(NilResults(ret.pkg)) = 1
    /\ ret.res = TRUE

\* the indices of the handles of fs whose retrieval succeeds
Retrieved(fs, ok) == {i \in 1..Len(fs) : fs[i] \in ok}

\* the j-th smallest member of the set of indices S
Kth(S, j) == CHOOSE i \in S : Cardinality({x \in S : x <= i}) = j

\* C15: GetSyntax returns the parsed forms of exactly the files whose
\* retrieval succeeded, in the order of the files list: the result is never
\* longer than the files list, and it is empty when every retrieval fails.
C15_SyntaxSkipsFailures ==
    ret.op = "GetSyntax" =>
        LET fs == files[ret.pkg]
            kept == Retrieved(fs, ret.ok)
        IN  /\ Len(ret.res) = Cardinality(kept)
            /\ \A j \in 1..Len(ret.res) : ret.res[j] = AstOf(fs[Kth(kept, j)])
            /\ Len(ret.res) <= Len(fs)
            /\ kept = {} => ret.res = <<>>

\* C15 witness: of three files the retrievals of the first and the third
\* succeeded and that of the second failed, and two parsed forms came back.
C15_Witness ==
    /\ ret.op = "GetSyntax"
    /\ Len(files[ret.pkg]) = 3
    /\ Retrieved(files[ret.pkg], ret.ok) = {1, 3}
    /\ ret.res = <<AstOf(files[ret.pkg][1]), AstOf(files[ret.pkg][3])>>

\* C20: GetImport asked for a key mapped to the nil node returns the error it
\* returns for a missing key, and a successful return carries a node.
C20_NoNilImport ==
    ret.op = "GetImport" =>
        LET m == imports[ret.pkg]
        IN  /\ (ret.path \in DOMAIN m /\ m[ret.path] = NilPkg)
                => ret.res = [err |-> "no imported package"]
            /\ ret.res.err = "nil" => ret.res.pkg \in Nodes

\* C20 witness: the path asked for is a key of the map, mapped to the nil
\* node, and GetImport returned the error.
C20_Witness ==
    /\ ret.op = "GetImport"
    /\ ret.path \in DOMAIN imports[ret.pkg]
    /\ imports[ret.pkg][ret.path] = NilPkg
    /\ ret.res = [err |-> "no imported package"]

(***************************************************************************)
(* The reference search: a breadth-first search that marks a node's id     *)
(* when the node is enqueued.                                              *)
(***************************************************************************)
\* the imports in the sequence deps are enqueued unless their id is marked
RECURSIVE RefEnqueue(_, _, _)
RefEnqueue(q, marked, deps) ==
    IF deps = <<>> THEN [q |-> q, marked |-> marked]
    ELSE IF pkgId[Head(deps)] \in marked
         THEN RefEnqueue(q, marked, Tail(deps))
         ELSE RefEnqueue(Append(q, Head(deps)),
                         marked \cup {pkgId[Head(deps)]}, Tail(deps))

\* the loop of the reference search, node n ranging over its imports in the
\* order om[n]
RECURSIVE RefSearch(_, _, _)
RefSearch(om, q, marked) ==
    IF q = <<>> THEN NotFound
    ELSE LET pkg == Head(q)
             hits == Carriers(files[pkg], uri)
         IN  IF hits # {}
             THEN [err |-> "nil", pkg |-> pkg,
                   ph |-> files[pkg][CHOOSE i \in hits : \A j \in hits : i <= j]]
             ELSE LET deps == [i \in 1..Len(om[pkg]) |-> imports[pkg][om[pkg][i]]]
                      st == RefEnqueue(Tail(q), marked, deps)
                  IN  RefSearch(om, st.q, st.marked)

RefFindFile(om) == RefSearch(om, <<StartNode>>, {pkgId[StartNode]})

\* the orders a range over an imports map of the model can take
AllOrders == UNION {Perms(D) : D \in SUBSET Paths}

\* a range order for every node: the order FindFile's first range over the
\* node's imports took, any order for a node FindFile did not range over
CompletedOrders ==
    {om \in [Nodes -> AllOrders] :
        \A n \in Nodes :
            IF orders[n].set THEN om[n] = orders[n].ord
            ELSE om[n] \in Perms(DOMAIN imports[n])}

\* the import distance of n from the start node, for a reachable n
RECURSIVE DistFrom(_, _, _)
DistFrom(S, n, d) ==
    IF n \in S THEN d
    ELSE DistFrom(S \cup UNION {Deps(m) : m \in S}, n, d + 1)

Dist(n) == DistFrom({StartNode}, n, 0)

\* the nodes popped so far
Popped == {popped[i] : i \in 1..Len(popped)}

VariantOnly(v) ==
    /\ v \in Reachable
    /\ \A n \in Nodes : HasFile(n, uri) <=> n = v
    /\ \A n \in Nodes \ {v} : pkgId[n] # pkgId[v]
    /\ \E u \in Popped \ {v} : pkgPath[u] = pkgPath[v] /\ pkgId[u] # pkgId[v]

\* the imports the iteration that pops the head of the queue appends
Appended == {queue'[i] : i \in Len(queue)..Len(queue')}

\* C17: when the file is only in a reachable node V that has the path of a
\* visited node and an id of its own, the search returns the file with V; and
\* an iteration leaves an import out of the queue only when a node with the
\* import's id has been popped.
C17_SeenIsKeyedById ==
    /\ [](Searched => \A v \in Nodes :
            VariantOnly(v) =>
                /\ result.err = "nil"
                /\ result.pkg = v
                /\ HandleURI(result.ph) = uri)
    /\ [][(pc = "loop" /\ pc' = "loop" /\ popped' # popped) =>
            \A d \in Deps(Head(queue)) :
                d \notin Appended =>
                    \E i \in 1..Len(popped') : pkgId[popped'[i]] = pkgId[d]]_vars

\* C17 witness: the file is only in V, a node with V's path and another id was
\* popped first, and the search returned the file with V.
C17_Witness ==
    /\ Searched
    /\ \E v \in Nodes \ {StartNode} :
        /\ VariantOnly(v)
        /\ result.err = "nil" /\ result.pkg = v
        /\ \E i \in 1..(Len(popped) - 1) :
                popped[i] # v /\ pkgPath[popped[i]] = pkgPath[v]

\* the reachable nodes whose files hold a handle with identity uri
Owners == {n \in Reachable : HasFile(n, uri)}

C19_CallsComplete ==
    /\ \A p \in Procs : (dpc[p] # "idle") ~> (dpc[p] = "idle")
    /\ []((\A p \in Procs : ~InSet(p) /\ ~InFind(p)) => ~diagMu)

\* C19 witness: a FindDiagnostic is about to return the error, holding the
\* mutex, while another goroutine waits in Lock.
C19_Witness ==
    \E p, w \in Procs :
        /\ dpc[p] = "find_ret" /\ dres[p] = NoMatch
        /\ diagMu
        /\ dpc[w] \in {"set_lock", "find_lock"}

(***************************************************************************)
(* Claims about what the operations leave unchanged.                       *)
(***************************************************************************)
\* C13: no step of File, GetSyntax, GetImport, IsIllTyped, FindFile,
\* SetDiagnostics or FindDiagnostic changes the id, path, files, errors,
\* imports or type results of any node, so they stay what they were at
\* construction; and only the two writing steps of SetDiagnostics change the
\* diagnostic table.
C13_NodeIsImmutable ==
    [][/\ pkgId' = pkgId /\ pkgPath' = pkgPath
       /\ files' = files /\ errors' = errors
       /\ imports' = imports
       /\ types' = types /\ typesInfo' = typesInfo /\ typesSizes' = typesSizes
       /\ (\A p \in Procs : dpc[p] \notin {"set_alloc", "set_store"})
            => diagnostics' = diagnostics]_vars

\* C13 witness: FindFile has returned from a search, a SetDiagnostics has
\* returned, a FindDiagnostic is about to return, and GetImport was asked for
\* a path that is no key and returned the error.
C13_Witness ==
    /\ Searched /\ Len(popped) >= 2
    /\ Len(writes) >= 1
    /\ dpc[Caller] = "find_ret"
    /\ ret.op = "GetImport"
    /\ ret.path \notin DOMAIN imports[ret.pkg]
    /\ ret.res = [err |-> "no imported package"]

====
